---- MODULE Spec2Model ----
(***************************************************************************)
(* Model of the Telegram relay bot: the in-memory conversation store of    *)
(* src/handlers.py (conversation_history, conversation_meta), the four     *)
(* aiogram handlers, and get_llm_response / get_llm_client of src/llm.py.  *)
(*                                                                         *)
(* Handlers are asyncio coroutines.  The only suspension points are the    *)
(* `await message.answer(...)` lines; get_llm_response is synchronous      *)
(* (blocking client call, time.sleep), so it holds the event loop.         *)
(* `running` is the task whose code is executing; a task gives the loop    *)
(* up only at an await.                                                    *)
(***************************************************************************)
EXTENDS Integers, Sequences, FiniteSets, TLC

\* ---- bounds of the model ------------------------------------------------
MaxEvents == 2          \* updates delivered by the transport in one run
NumTasks == 2           \* handler coroutines alive at the same time
MaxRetryAttempts == 2   \* largest LLM_RETRY_ATTEMPTS tried
MaxHistoryLimit == 2    \* largest CONVERSATION_HISTORY_LIMIT tried
MaxLiveEvents == 1      \* updates delivered in the runs checked for progress

\* ---- input domains ------------------------------------------------------
None == "None"
NoTask == 0
Tasks == 1..NumTasks
ChatIds == {1, 2}
Texts == {"a", "b"}
Replies == {"r1", "r2"}
ApiErrors == {"e1", "e2"}
Users == { [username |-> "ann", first_name |-> "Ann"],
           [username |-> None,  first_name |-> "Bob"] }
RetryAttemptsSet == {-1} \cup (0..MaxRetryAttempts)
HistoryLimitSet == 0..MaxHistoryLimit
SystemPrompt == "system_prompt"

VARIABLES
    conversation_history,   \* handlers.conversation_history: chat_id -> list of turns
    conversation_meta,      \* handlers.conversation_meta: chat_id -> {username, started_at}
    client,                 \* llm._client: None or the OpenAI client
    env,                    \* the process environment read through os.getenv
    clock,                  \* datetime.now(); advances with every update received
    running,                \* the task holding the event loop, or NoTask
    task,                   \* per handler coroutine: its locals and position
    last_event              \* per chat id: the last /start-or-text vs /clear processed

vars == <<conversation_history, conversation_meta, client, env, clock,
          running, task, last_event>>

\* ---- python helpers -----------------------------------------------------
\* a or b
PyOr(a, b) == IF a \in {None, ""} THEN b ELSE a

\* s[i:] with Python's index clamping (i may be negative)
PySliceFrom(s, i) ==
    LET n == Len(s)
        start == IF i < 0 THEN (IF n + i < 0 THEN 0 ELSE n + i)
                          ELSE (IF i > n THEN n ELSE i)
    IN  SubSeq(s, start + 1, n)

\* s[:-1]
PyDropLast(s) == SubSeq(s, 1, Len(s) - 1)

\* del d[k]
DictDel(d, k) == [x \in (DOMAIN d) \ {k} |-> d[x]]

\* variant: d = {k: v}
DictSetOnly(d, k, v) == [x \in {k} |-> v]

\* d[k] = v
DictSet(d, k, v) == [x \in (DOMAIN d) \cup {k} |-> IF x = k THEN v ELSE d[x]]

Turn(role, content) == [role |-> role, content |-> content]

\* ---- user-visible reply templates ---------------------------------------
Greeting(username) == [tpl |-> "greeting", arg |-> username]
ClearConfirmation == [tpl |-> "cleared", arg |-> ""]
ErrorMessage == [tpl |-> "apology", arg |-> ""]
NonTextMessage == [tpl |-> "not_recognized", arg |-> ""]
LlmReply(text) == [tpl |-> "llm", arg |-> text]
NoReply == [tpl |-> "", arg |-> ""]

\* ---- tasks --------------------------------------------------------------
IdleTask ==
    [ kind |-> "idle", pc |-> "idle", chat_id |-> 0, text |-> "",
      reply |-> NoReply, in_try |-> FALSE,
      messages |-> << >>, attempt |-> 0, last_error |-> None,
      response |-> None, llm_response |-> None, raised |-> None,
      got_reply |-> FALSE,
      existed |-> FALSE, before |-> << >>, before_meta |-> << >>,
      trace |-> << >>, errs |-> << >>, sent |-> 0, crashed |-> None ]

Free(t) == task[t].pc \in {"idle", "done"}

\* the dispatcher starts a handler coroutine in the first free slot
FirstFree(t) == Free(t) /\ \A u \in Tasks : u < t => ~Free(u)

\* what is left of a coroutine's frame while it is suspended in an await
Suspended(tk) ==
    [IdleTask EXCEPT !.kind = tk.kind, !.chat_id = tk.chat_id, !.text = tk.text,
        !.pc = "awaiting", !.reply = tk.reply, !.in_try = tk.in_try,
        !.got_reply = tk.got_reply, !.sent = tk.sent]

\* what is recorded of a coroutine that has ended
Finished(tk, crashed) ==
    [IdleTask EXCEPT !.kind = tk.kind, !.pc = "done", !.sent = tk.sent,
        !.crashed = crashed]

Init ==
    /\ conversation_history = << >>
    /\ conversation_meta = << >>
    /\ client = None
    /\ env \in [ OPENROUTER_API_KEY : {None, "key"},
                 CONVERSATION_HISTORY_LIMIT : HistoryLimitSet,
                 LLM_RETRY_ATTEMPTS : RetryAttemptsSet ]
    /\ clock = 0
    /\ running = NoTask
    /\ task = [t \in Tasks |-> IdleTask]
    /\ last_event = [c \in ChatIds |-> "none"]

\* the record of a task that starts handling an update
NewTask(kind, chat_id, text) ==
    [IdleTask EXCEPT !.kind = kind, !.chat_id = chat_id, !.text = text,
        !.existed = chat_id \in DOMAIN conversation_history,
        !.before = IF chat_id \in DOMAIN conversation_history
                   THEN conversation_history[chat_id] ELSE << >>,
        !.before_meta = IF chat_id \in DOMAIN conversation_meta
                        THEN <<conversation_meta[chat_id]>> ELSE << >>]

\* ---- cmd_start ----------------------------------------------------------
\* variant: /start never initialises the conversation
StartIsNewNever(chat_id) == FALSE

\* variant: /start initialises the conversation every time
StartIsNewAlways(chat_id) == TRUE

\* if chat_id not in conversation_meta
StartIsNew(chat_id) == chat_id \notin DOMAIN conversation_meta

StartUsername(user) == PyOr(PyOr(user.username, user.first_name), "user")

NewMeta(username) == [username |-> username, started_at |-> clock + 1]

\* variant: /start stores its greeting as the first turn of the new history
CmdStartStoresGreeting(t, chat_id, user) ==
    /\ running = NoTask /\ FirstFree(t) /\ clock < MaxEvents
    /\ clock' = clock + 1
    /\ LET username == StartUsername(user) IN
       /\ IF StartIsNew(chat_id)
          THEN /\ conversation_meta' = DictSet(conversation_meta, chat_id, NewMeta(username))
               /\ conversation_history' = DictSet(conversation_history, chat_id,
                                               << Turn("assistant", "greeting") >>)
          ELSE UNCHANGED <<conversation_meta, conversation_history>>
       /\ task' = [task EXCEPT ![t] =
                     [NewTask("start", chat_id, "") EXCEPT
                        !.pc = "answer", !.reply = Greeting(username)]]
    /\ running' = t
    /\ last_event' = [last_event EXCEPT ![chat_id] = "ensure"]
    /\ UNCHANGED <<client, env>>

CmdStart(t, chat_id, user) ==
    /\ running = NoTask /\ FirstFree(t) /\ clock < MaxEvents
    /\ clock' = clock + 1
    /\ LET username == StartUsername(user) IN
       /\ IF StartIsNew(chat_id)
          THEN /\ conversation_meta' = DictSet(conversation_meta, chat_id, NewMeta(username))
               /\ conversation_history' = DictSet(conversation_history, chat_id, << >>)
          ELSE UNCHANGED <<conversation_meta, conversation_history>>
       /\ task' = [task EXCEPT ![t] =
                     [NewTask("start", chat_id, "") EXCEPT
                        !.pc = "answer", !.reply = Greeting(username)]]
    /\ running' = t
    /\ last_event' = [last_event EXCEPT ![chat_id] = "ensure"]
    /\ UNCHANGED <<client, env>>

\* ---- cmd_clear ----------------------------------------------------------
\* variant: a different reply when there was nothing to clear
ClearReplyByCase(existed) ==
    IF existed THEN ClearConfirmation ELSE [tpl |-> "nothing_to_clear", arg |-> ""]

\* the text passed to message.answer, the same after both branches
ClearReply(existed) == ClearConfirmation

\* variant: /clear deletes the history and keeps the metadata
CmdClearKeepsMeta(t, chat_id) ==
    /\ running = NoTask /\ FirstFree(t) /\ clock < MaxEvents
    /\ clock' = clock + 1
    /\ IF chat_id \in DOMAIN conversation_history
       THEN conversation_history' = DictDel(conversation_history, chat_id)
       ELSE UNCHANGED conversation_history
    /\ UNCHANGED conversation_meta
    /\ task' = [task EXCEPT ![t] =
                  [NewTask("clear", chat_id, "") EXCEPT
                     !.pc = "answer",
                     !.reply = ClearReply(chat_id \in DOMAIN conversation_history)]]
    /\ running' = t
    /\ last_event' = [last_event EXCEPT ![chat_id] = "clear"]
    /\ UNCHANGED <<client, env>>

CmdClear(t, chat_id) ==
    /\ running = NoTask /\ FirstFree(t) /\ clock < MaxEvents
    /\ clock' = clock + 1
    /\ IF chat_id \in DOMAIN conversation_history
       THEN /\ conversation_history' = DictDel(conversation_history, chat_id)
            /\ IF chat_id \in DOMAIN conversation_meta
               THEN /\ conversation_meta' = DictDel(conversation_meta, chat_id)
                    /\ task' = [task EXCEPT ![t] =
                                  [NewTask("clear", chat_id, "") EXCEPT
                                     !.pc = "answer", !.reply = ClearReply(TRUE)]]
                    /\ running' = t
               ELSE \* del conversation_meta[chat_id] raises KeyError
                    /\ UNCHANGED conversation_meta
                    /\ task' = [task EXCEPT ![t] =
                                  Finished(NewTask("clear", chat_id, ""), "KeyError")]
                    /\ UNCHANGED running
       ELSE /\ UNCHANGED <<conversation_history, conversation_meta>>
            /\ task' = [task EXCEPT ![t] =
                          [NewTask("clear", chat_id, "") EXCEPT
                             !.pc = "answer", !.reply = ClearReply(FALSE)]]
            /\ running' = t
    /\ last_event' = [last_event EXCEPT ![chat_id] = "clear"]
    /\ UNCHANGED <<client, env>>

\* ---- handle_non_text ----------------------------------------------------
HandleNonText(t, chat_id) ==
    /\ running = NoTask /\ FirstFree(t) /\ clock < MaxEvents
    /\ clock' = clock + 1
    /\ task' = [task EXCEPT ![t] =
                  [NewTask("non_text", chat_id, "") EXCEPT
                     !.pc = "answer", !.reply = NonTextMessage]]
    /\ running' = t
    /\ UNCHANGED <<conversation_history, conversation_meta, client, env, last_event>>

\* ---- handle_text: receipt, ensure, provisional append --------------------
TextUsername(user) == PyOr(user.username, "unknown")

\* variant: the whole stored history is passed, provisional turn included
HistoryArgWhole(h) == h

\* history=conversation_history[chat_id][:-1]
HistoryArg(h) == PyDropLast(h)

\* variant: a first text message creates the history but no metadata
HandleTextNoMeta(t, chat_id, user, text) ==
    /\ running = NoTask /\ FirstFree(t) /\ clock < MaxEvents
    /\ clock' = clock + 1
    /\ IF chat_id \notin DOMAIN conversation_history
       THEN /\ conversation_history' = DictSet(conversation_history, chat_id, << >>)
            /\ UNCHANGED conversation_meta
       ELSE UNCHANGED <<conversation_history, conversation_meta>>
    /\ task' = [task EXCEPT ![t] = [NewTask("text", chat_id, text) EXCEPT !.pc = "append"]]
    /\ running' = t
    /\ last_event' = [last_event EXCEPT ![chat_id] = "ensure"]
    /\ UNCHANGED <<client, env>>

\* lines 92-105: the update is received, the record is created if new
HandleText(t, chat_id, user, text) ==
    /\ running = NoTask /\ FirstFree(t) /\ clock < MaxEvents
    /\ clock' = clock + 1
    /\ LET username == TextUsername(user) IN
       IF chat_id \notin DOMAIN conversation_history
       THEN /\ conversation_history' = DictSet(conversation_history, chat_id, << >>)
            /\ conversation_meta' = DictSet(conversation_meta, chat_id, NewMeta(username))
       ELSE UNCHANGED <<conversation_history, conversation_meta>>
    /\ task' = [task EXCEPT ![t] = [NewTask("text", chat_id, text) EXCEPT !.pc = "append"]]
    /\ running' = t
    /\ last_event' = [last_event EXCEPT ![chat_id] = "ensure"]
    /\ UNCHANGED <<client, env>>

UserTurn(text) == Turn("user", text)

\* variant: the reply stored under the user role
AssistantTurnAsUser(llm_response) == Turn("user", llm_response)

AssistantTurn(llm_response) == Turn("assistant", llm_response)

\* lines 107-111: the provisional User turn
AppendUser(t) ==
    /\ running = t /\ task[t].pc = "append"
    /\ LET chat_id == task[t].chat_id IN
       conversation_history' = [conversation_history EXCEPT
            ![chat_id] = Append(@, UserTurn(task[t].text))]
    /\ task' = [task EXCEPT ![t].pc = "llm_client"]
    /\ UNCHANGED <<conversation_meta, client, env, clock, running, last_event>>

\* ---- get_llm_client -----------------------------------------------------
GetLlmClient(t) ==
    /\ running = t /\ task[t].pc = "llm_client"
    /\ IF client = None
       THEN IF env.OPENROUTER_API_KEY \in {None, ""}
            THEN \* raise ValueError("OPENROUTER_API_KEY is required")
                 /\ task' = [task EXCEPT ![t].pc = "except", ![t].raised = "ValueError"]
                 /\ UNCHANGED client
            ELSE /\ client' = "OpenAI"
                 /\ task' = [task EXCEPT ![t].pc = "llm_build"]
       ELSE /\ task' = [task EXCEPT ![t].pc = "llm_build"]
            /\ UNCHANGED client
    /\ UNCHANGED <<conversation_history, conversation_meta, env, clock, running, last_event>>

\* ---- get_llm_response: request assembly ---------------------------------
\* history[-history_limit:] if len(history) > history_limit else history
LimitedHistory(history, history_limit) ==
    IF Len(history) > history_limit
    THEN PySliceFrom(history, 0 - history_limit)
    ELSE history

BuildMessages(system_prompt, history, user_message, history_limit) ==
    LET messages0 == << Turn("system", system_prompt) >>
        messages1 == IF Len(history) > 0
                     THEN messages0 \o LimitedHistory(history, history_limit)
                     ELSE messages0
    IN  Append(messages1, Turn("user", user_message))

LlmBuild(t) ==
    /\ running = t /\ task[t].pc = "llm_build"
    /\ task' = [task EXCEPT
                  ![t].messages = BuildMessages(SystemPrompt,
                                      HistoryArg(conversation_history[task[t].chat_id]),
                                      task[t].text,
                                      env.CONVERSATION_HISTORY_LIMIT),
                  ![t].last_error = None,
                  ![t].attempt = 1,
                  ![t].pc = "llm_loop"]
    /\ UNCHANGED <<conversation_history, conversation_meta, client, env, clock,
                   running, last_event>>

\* ---- get_llm_response: retry loop ---------------------------------------
\* variant: while True
InLoopForever(attempt, retry_attempts) == TRUE

\* variant: at least one attempt is made (range(1, max(retry_attempts, 1) + 1))
InLoopAtLeastOnce(attempt, retry_attempts) ==
    attempt <= (IF retry_attempts < 1 THEN 1 ELSE retry_attempts)

\* for attempt in range(1, retry_attempts + 1)
InLoop(attempt, retry_attempts) == attempt <= retry_attempts

\* variant: the pause is taken after the last attempt too
ShouldSleepAfterLast(attempt, retry_attempts) == attempt <= retry_attempts

\* if attempt < retry_attempts
ShouldSleep(attempt, retry_attempts) == attempt < retry_attempts

\* variant: the pause is taken after a successful call as well
LlmCallOkThenSleep(t, r) ==
    /\ running = t /\ task[t].pc = "llm_loop"
    /\ InLoop(task[t].attempt, env.LLM_RETRY_ATTEMPTS)
    /\ task' = [task EXCEPT
                  ![t].trace = @ \o <<"call", "sleep">>,
                  ![t].response = r,
                  ![t].llm_response = r,
                  ![t].got_reply = TRUE,
                  ![t].pc = "commit"]
    /\ UNCHANGED <<conversation_history, conversation_meta, client, env, clock,
                   running, last_event>>

\* client.chat.completions.create(...) returns; return assistant_message
LlmCallOk(t, r) ==
    /\ running = t /\ task[t].pc = "llm_loop"
    /\ InLoop(task[t].attempt, env.LLM_RETRY_ATTEMPTS)
    /\ task' = [task EXCEPT
                  ![t].trace = Append(@, "call"),
                  ![t].response = r,
                  ![t].llm_response = r,
                  ![t].got_reply = TRUE,
                  ![t].pc = "commit"]
    /\ UNCHANGED <<conversation_history, conversation_meta, client, env, clock,
                   running, last_event>>

\* variant: only the first error is remembered
NextLastErrorKeepFirst(last_error, e) == IF last_error = None THEN e ELSE last_error

\* except Exception as e: last_error = e
NextLastError(last_error, e) == e

\* client.chat.completions.create(...) raises e
LlmCallFail(t, e) ==
    /\ running = t /\ task[t].pc = "llm_loop"
    /\ InLoop(task[t].attempt, env.LLM_RETRY_ATTEMPTS)
    /\ task' = [task EXCEPT
                  ![t].trace = Append(@, "call"),
                  ![t].errs = Append(@, e),
                  ![t].last_error = NextLastError(@, e),
                  ![t].attempt = IF ShouldSleep(task[t].attempt, env.LLM_RETRY_ATTEMPTS)
                                 THEN @ ELSE @ + 1,
                  ![t].pc = IF ShouldSleep(task[t].attempt, env.LLM_RETRY_ATTEMPTS)
                            THEN "llm_sleep" ELSE "llm_loop"]
    /\ UNCHANGED <<conversation_history, conversation_meta, client, env, clock,
                   running, last_event>>

\* variant: the pause gives the event loop up (await asyncio.sleep(1))
LlmSleepYields(t) ==
    /\ running = t /\ task[t].pc = "llm_sleep"
    /\ task' = [task EXCEPT
                  ![t].trace = Append(@, "sleep"),
                  ![t].attempt = @ + 1,
                  ![t].pc = "llm_loop"]
    /\ running' = NoTask
    /\ UNCHANGED <<conversation_history, conversation_meta, client, env, clock, last_event>>

\* time.sleep(1)
LlmSleep(t) ==
    /\ running = t /\ task[t].pc = "llm_sleep"
    /\ task' = [task EXCEPT
                  ![t].trace = Append(@, "sleep"),
                  ![t].attempt = @ + 1,
                  ![t].pc = "llm_loop"]
    /\ UNCHANGED <<conversation_history, conversation_meta, client, env, clock,
                   running, last_event>>

\* raise last_error  (raise None is a TypeError)
Raised(last_error) == IF last_error = None THEN "TypeError" ELSE last_error

LlmRaise(t) ==
    /\ running = t /\ task[t].pc = "llm_loop"
    /\ ~InLoop(task[t].attempt, env.LLM_RETRY_ATTEMPTS)
    /\ task' = [task EXCEPT ![t].raised = Raised(task[t].last_error), ![t].pc = "except"]
    /\ UNCHANGED <<conversation_history, conversation_meta, client, env, clock,
                   running, last_event>>

\* ---- handle_text: commit and rollback -----------------------------------
\* variant: the stored history is cut to history_limit at the commit
CommitTrimmed(t) ==
    /\ running = t /\ task[t].pc = "commit"
    /\ LET chat_id == task[t].chat_id IN
       conversation_history' = [conversation_history EXCEPT
            ![chat_id] = LimitedHistory(Append(@, AssistantTurn(task[t].llm_response)),
                                        env.CONVERSATION_HISTORY_LIMIT)]
    /\ task' = [task EXCEPT ![t].pc = "answer", ![t].in_try = TRUE,
                            ![t].reply = LlmReply(task[t].llm_response)]
    /\ UNCHANGED <<conversation_meta, client, env, clock, running, last_event>>

Commit(t) ==
    /\ running = t /\ task[t].pc = "commit"
    /\ LET chat_id == task[t].chat_id IN
       conversation_history' = [conversation_history EXCEPT
            ![chat_id] = Append(@, AssistantTurn(task[t].llm_response))]
    /\ task' = [task EXCEPT ![t].pc = "answer", ![t].in_try = TRUE,
                            ![t].reply = LlmReply(task[t].llm_response)]
    /\ UNCHANGED <<conversation_meta, client, env, clock, running, last_event>>

\* variant: the error branch without the compensating pop
RollbackNoPop(h) == h

\* variant: the last turn is popped whatever its role
RollbackAnyRole(h) == IF Len(h) > 0 THEN PyDropLast(h) ELSE h

\* if history and history[-1]["role"] == "user": history.pop()
Rollback(h) ==
    IF Len(h) > 0 /\ h[Len(h)].role = "user" THEN PyDropLast(h) ELSE h

\* variant: the error text is shown to the user
ErrorReplyLeaks(raised) == [tpl |-> "apology", arg |-> raised]

\* error_message: a fixed text, the exception is only logged
ErrorReply(raised) == ErrorMessage

Except(t) ==
    /\ running = t /\ task[t].pc = "except"
    /\ LET chat_id == task[t].chat_id IN
       IF chat_id \in DOMAIN conversation_history
       THEN /\ conversation_history' = [conversation_history EXCEPT
                                           ![chat_id] = Rollback(@)]
            /\ task' = [task EXCEPT ![t].pc = "answer", ![t].in_try = FALSE,
                                    ![t].reply = ErrorReply(task[t].raised)]
            /\ UNCHANGED running
       ELSE \* conversation_history[chat_id] raises KeyError inside the handler
            /\ UNCHANGED conversation_history
            /\ task' = [task EXCEPT ![t] = Finished(task[t], "KeyError")]
            /\ running' = NoTask
    /\ UNCHANGED <<conversation_meta, client, env, clock, last_event>>

\* ---- await message.answer(...) ------------------------------------------
\* the coroutine suspends and the event loop is free
AwaitAnswer(t) ==
    /\ running = t /\ task[t].pc = "answer"
    /\ task' = [task EXCEPT ![t] = Suspended(task[t])]
    /\ running' = NoTask
    /\ UNCHANGED <<conversation_history, conversation_meta, client, env, clock, last_event>>

\* the reply is delivered; the handler returns
AnswerOk(t) ==
    /\ running = NoTask /\ task[t].pc = "awaiting"
    /\ task' = [task EXCEPT ![t] =
                  Finished([task[t] EXCEPT !.sent = @ + 1], None)]
    /\ UNCHANGED <<conversation_history, conversation_meta, client, env, clock,
                   running, last_event>>

\* message.answer raises; inside handle_text's try it is caught by
\* `except Exception`, elsewhere it leaves the handler
AnswerFail(t) ==
    /\ running = NoTask /\ task[t].pc = "awaiting"
    /\ IF task[t].kind = "text" /\ task[t].in_try
       THEN /\ task' = [task EXCEPT ![t].pc = "except", ![t].raised = "TelegramError"]
            /\ running' = t
       ELSE /\ task' = [task EXCEPT ![t] = Finished(task[t], "TelegramError")]
            /\ UNCHANGED running
    /\ UNCHANGED <<conversation_history, conversation_meta, client, env, clock, last_event>>

\* variant: the pause is a suspension point, so cancellation can arrive in it
CancelInPause(t) ==
    /\ \/ running = NoTask /\ task[t].pc = "awaiting"
       \/ running = t /\ task[t].pc = "llm_sleep"
    /\ task' = [task EXCEPT ![t] = Finished(task[t], "CancelledError")]
    /\ running' = NoTask
    /\ UNCHANGED <<conversation_history, conversation_meta, client, env, clock, last_event>>

\* the coroutine is cancelled while suspended: CancelledError is raised at
\* the await and `except Exception` does not catch it
Cancel(t) ==
    /\ running = NoTask /\ task[t].pc = "awaiting"
    /\ task' = [task EXCEPT ![t] = Finished(task[t], "CancelledError")]
    /\ UNCHANGED <<conversation_history, conversation_meta, client, env, clock,
                   running, last_event>>

Next ==
    \/ \E t \in Tasks, c \in ChatIds, u \in Users : CmdStart(t, c, u)
    \/ \E t \in Tasks, c \in ChatIds : CmdClear(t, c)
    \/ \E t \in Tasks, c \in ChatIds : HandleNonText(t, c)
    \/ \E t \in Tasks, c \in ChatIds, u \in Users, x \in Texts : HandleText(t, c, u, x)
    \/ \E t \in Tasks : AppendUser(t)
    \/ \E t \in Tasks : GetLlmClient(t)
    \/ \E t \in Tasks : LlmBuild(t)
    \/ \E t \in Tasks, r \in Replies : LlmCallOk(t, r)
    \/ \E t \in Tasks, e \in ApiErrors : LlmCallFail(t, e)
    \/ \E t \in Tasks : LlmSleep(t)
    \/ \E t \in Tasks : LlmRaise(t)
    \/ \E t \in Tasks : Commit(t)
    \/ \E t \in Tasks : Except(t)
    \/ \E t \in Tasks : AwaitAnswer(t)
    \/ \E t \in Tasks : AnswerOk(t)
    \/ \E t \in Tasks : AnswerFail(t)
    \/ \E t \in Tasks : Cancel(t)

Spec == Init /\ [][Next]_vars

\* the code of the coroutine that holds the event loop: it runs on, and
\* every remote call and every pause returns
HandlerStep(t) ==
    \/ AppendUser(t)
    \/ GetLlmClient(t)
    \/ LlmBuild(t)
    \/ \E r \in Replies : LlmCallOk(t, r)
    \/ \E e \in ApiErrors : LlmCallFail(t, e)
    \/ LlmSleep(t)
    \/ LlmRaise(t)
    \/ Commit(t)
    \/ Except(t)
    \/ AwaitAnswer(t)

\* the same program with at most MaxLiveEvents updates, under the
\* scheduling above
FairNext == Next /\ clock' <= MaxLiveEvents

FairSpec ==
    /\ Init
    /\ [][FairNext]_vars
    /\ \A t \in Tasks : WF_vars(HandlerStep(t))

\* ---- vocabulary of the properties ---------------------------------------
Min(a, b) == IF a < b THEN a ELSE b

\* the last n elements of s
LastN(s, n) == SubSeq(s, Len(s) - n + 1, Len(s))

\* the errors get_llm_response can end with
LlmErrors == ApiErrors \cup {"ValueError", "TypeError"}

Store == <<conversation_history, conversation_meta>>

\* task t takes this step
Acts(t) == task'[t] # task[t]

\* t is executing handle_text (it holds the event loop)
InText(t) == running = t /\ task[t].kind = "text"

\* C1 -- Rollback: when get_llm_response fails (retries exhausted, missing
\* credential, or raise of None), the except branch of handle_text leaves the
\* conversation's history equal to the history it had when the message was
\* received, and the rest of the handler (sending the apology) does not
\* touch the store.
C1_Rollback ==
    [][\A t \in Tasks :
         /\ (InText(t) /\ task[t].pc = "except" /\ task[t].raised \in LlmErrors /\ Acts(t))
               => /\ task'[t].pc = "answer"
                  /\ task'[t].reply = ErrorMessage
                  /\ task[t].chat_id \in DOMAIN conversation_history'
                  /\ conversation_history'[task[t].chat_id] = task[t].before
         /\ (task[t].kind = "text" /\ task[t].pc \in {"answer", "awaiting"}
                /\ ~task[t].in_try /\ Acts(t))
               => Store' = Store
      ]_vars

C1_Witness ==
    \E t \in Tasks :
       /\ InText(t) /\ task[t].pc = "answer" /\ ~task[t].in_try
       /\ task[t].raised \in ApiErrors
       /\ Len(task[t].before) = 2
       /\ conversation_history[task[t].chat_id] = task[t].before

\* C2 -- Commit atomicity: when get_llm_response returns reply r for text t,
\* the commit leaves the history equal to the prior history followed by the
\* User turn t and the Assistant turn r, and no later step of the same handler
\* changes the store.
C2_CommitAtomicity ==
    [][\A t \in Tasks :
         /\ (InText(t) /\ task[t].pc = "commit" /\ Acts(t))
               => /\ task'[t].pc = "answer"
                  /\ conversation_history'[task[t].chat_id] =
                        task[t].before \o << [role |-> "user", content |-> task[t].text],
                                             [role |-> "assistant", content |-> task[t].response] >>
         /\ (task[t].kind = "text" /\ task[t].in_try
                /\ task[t].pc \in {"answer", "awaiting", "except"} /\ Acts(t))
               => Store' = Store
      ]_vars

C2_Witness ==
    \E t \in Tasks :
       /\ InText(t) /\ task[t].pc = "answer" /\ task[t].in_try
       /\ Len(task[t].before) = 2
       /\ Len(conversation_history[task[t].chat_id]) = 4
       /\ conversation_history[task[t].chat_id][4] =
             [role |-> "assistant", content |-> task[t].response]

\* the history entries of a request: everything between the system entry and
\* the final user entry
RequestHistory(messages) == SubSeq(messages, 2, Len(messages) - 1)

\* C3 -- Truncation correctness: for a prior history of length H and
\* history_limit L >= 0, the request contains exactly min(H, L) history turns,
\* the last min(H, L) turns of the prior history in their order.
C3_Truncation ==
    \A t \in Tasks :
       (InText(t) /\ task[t].pc = "llm_loop") =>
          LET H == Len(task[t].before)
              L == env.CONVERSATION_HISTORY_LIMIT
          IN  RequestHistory(task[t].messages) = LastN(task[t].before, Min(H, L))

\* C4 -- Request shape: the request starts with the single system entry
\* holding the system prompt, ends with a user entry holding the current
\* text, and the entries between are consecutive turns of the stored history
\* that end before the provisional User turn.
C4_RequestShape ==
    \A t \in Tasks :
       (InText(t) /\ task[t].pc = "llm_loop") =>
          LET m == task[t].messages
              h == conversation_history[task[t].chat_id]
          IN  /\ Len(m) >= 2
              /\ m[1] = [role |-> "system", content |-> SystemPrompt]
              /\ \A i \in 2..Len(m) : m[i].role # "system"
              /\ m[Len(m)] = [role |-> "user", content |-> task[t].text]
              /\ h[Len(h)] = [role |-> "user", content |-> task[t].text]
              /\ \E k \in 1..Len(h) :
                    RequestHistory(m) = SubSeq(h, k, Len(h) - 1)

C4_Witness ==
    \E t \in Tasks :
       /\ InText(t) /\ task[t].pc = "llm_loop"
       /\ Len(task[t].messages) = 3
       /\ Len(conversation_history[task[t].chat_id]) = 3
       /\ env.CONVERSATION_HISTORY_LIMIT = 1

\* call, sleep, call, ..., call with k calls
CallsWithPauses(trace, k) ==
    /\ Len(trace) = 2 * k - 1
    /\ \A i \in 1..Len(trace) : trace[i] = IF i % 2 = 1 THEN "call" ELSE "sleep"

\* C5 -- Retry bound: with retry_attempts = n >= 1 and every remote call
\* failing, get_llm_response has made exactly n calls and n - 1 pauses when it
\* raises, every pause lies between two calls and none follows the last call.
C5_RetryBound ==
    \A t \in Tasks :
       (InText(t) /\ task[t].raised \in ApiErrors
          /\ (task[t].pc = "except" \/ (task[t].pc = "answer" /\ ~task[t].in_try)))
       => /\ env.LLM_RETRY_ATTEMPTS >= 1
          /\ CallsWithPauses(task[t].trace, env.LLM_RETRY_ATTEMPTS)
          /\ Len(task[t].errs) = env.LLM_RETRY_ATTEMPTS

C5_Witness ==
    \E t \in Tasks :
       /\ InText(t) /\ task[t].pc = "except" /\ task[t].raised \in ApiErrors
       /\ env.LLM_RETRY_ATTEMPTS = 2
       /\ task[t].trace = <<"call", "sleep", "call">>

\* C6 -- Retry stops at the first success: when attempt k is the first to
\* succeed, get_llm_response has made exactly k calls and k - 1 pauses, returns
\* the reply of that call, and after the commit the history ends with the User
\* turn followed by that reply as the Assistant turn.
C6_StopsAtFirstSuccess ==
    \A t \in Tasks :
       (InText(t) /\ (task[t].pc = "commit" \/ (task[t].pc = "answer" /\ task[t].in_try)))
       => LET k == Len(task[t].errs) + 1
              h == conversation_history[task[t].chat_id]
          IN  /\ k <= env.LLM_RETRY_ATTEMPTS
              /\ task[t].attempt = k
              /\ CallsWithPauses(task[t].trace, k)
              /\ task[t].response \in Replies
              /\ task[t].llm_response = task[t].response
              /\ task[t].pc = "answer" =>
                    /\ Len(h) >= 2
                    /\ LastN(h, 2) = << [role |-> "user", content |-> task[t].text],
                                       [role |-> "assistant", content |-> task[t].response] >>

C6_Witness ==
    \E t \in Tasks :
       /\ InText(t) /\ task[t].pc = "answer" /\ task[t].in_try
       /\ Len(task[t].errs) = 1
       /\ task[t].trace = <<"call", "sleep", "call">>
       /\ task[t].reply = LlmReply(task[t].response)

\* C7 -- Last error surfaced: when all n >= 1 attempts fail, get_llm_response
\* raises the error of the final attempt, and handle_text then removes the
\* provisional User turn.
C7_LastErrorSurfaced ==
    \A t \in Tasks :
       (InText(t) /\ Len(task[t].errs) >= 1
          /\ Len(task[t].errs) = env.LLM_RETRY_ATTEMPTS
          /\ task[t].pc \in {"except", "answer"})
       => /\ task[t].raised = task[t].errs[Len(task[t].errs)]
          /\ task[t].pc = "answer" =>
                /\ ~task[t].in_try
                /\ conversation_history[task[t].chat_id] = task[t].before

C7_Witness ==
    \E t \in Tasks :
       /\ InText(t) /\ task[t].pc = "answer"
       /\ task[t].errs = <<"e1", "e2">>
       /\ task[t].raised = "e2"
       /\ ~task[t].existed
       /\ conversation_history[task[t].chat_id] = << >>

\* C8 -- Clear: the step that processes /clear for an id leaves the id with
\* neither history nor metadata, changes nothing in the store when the id had
\* no record, never fails, and passes the same confirmation to the user in
\* both cases; the rest of the handler does not touch the store.
C8_ClearIdempotent ==
    [][\A t \in Tasks :
         (Acts(t) /\ task'[t].kind = "clear") =>
            IF Free(t)
            THEN LET c == task'[t].chat_id IN
                 /\ task'[t].pc = "answer"
                 /\ task'[t].reply = ClearConfirmation
                 /\ c \notin DOMAIN conversation_history'
                 /\ c \notin DOMAIN conversation_meta'
                 /\ (c \notin DOMAIN conversation_history /\ c \notin DOMAIN conversation_meta)
                       => Store' = Store
            ELSE /\ Store' = Store
                 /\ task[t].reply = ClearConfirmation
      ]_vars

C8_Witness ==
    \E t \in Tasks :
       /\ running = t /\ task[t].kind = "clear" /\ task[t].pc = "answer"
       /\ ~task[t].existed
       /\ task[t].reply = ClearConfirmation
       /\ DOMAIN conversation_history # {}
       /\ task[t].chat_id \notin DOMAIN conversation_history

RecordExists(c) == c \in DOMAIN conversation_history /\ c \in DOMAIN conversation_meta

\* C9 -- Record existence: an id has a record exactly when the last processed
\* event among /start, text message and /clear for the id is a /start or a
\* text message; a record created by /start or by a first text message starts
\* with an empty history.
C9_RecordExistence ==
    /\ \A c \in ChatIds : RecordExists(c) <=> last_event[c] = "ensure"
    /\ \A c \in ChatIds : c \in DOMAIN conversation_history <=> c \in DOMAIN conversation_meta
    /\ \A t \in Tasks :
          (running = t /\ ~task[t].existed
             /\ \/ task[t].kind = "start" /\ task[t].pc = "answer"
                \/ task[t].kind = "text" /\ task[t].pc = "append")
          => conversation_history[task[t].chat_id] = << >>

C9_Witness ==
    \E t \in Tasks :
       /\ running = t /\ task[t].kind = "clear" /\ task[t].pc = "answer"
       /\ task[t].existed /\ Len(task[t].before) = 2
       /\ last_event[task[t].chat_id] = "clear"
       /\ ~RecordExists(task[t].chat_id)
       /\ \E c \in ChatIds : last_event[c] = "none"

\* the conversation a step of task t is about
ActChat(t) == IF Free(t) THEN task'[t].chat_id ELSE task[t].chat_id

\* C10 -- Ensure is idempotent: a step of a /start or text handler for an id
\* that has a record leaves the record's owner label and creation time
\* unchanged, a step of /start leaves its history unchanged, and metadata is
\* written only for an id that had no record, with the current time.
C10_EnsureIdempotent ==
    [][/\ \A t \in Tasks :
            (Acts(t) /\ task'[t].kind \in {"start", "text"}
               /\ ActChat(t) \in DOMAIN conversation_meta)
            => /\ ActChat(t) \in DOMAIN conversation_meta'
               /\ conversation_meta'[ActChat(t)] = conversation_meta[ActChat(t)]
               /\ (task'[t].kind = "start" /\ ActChat(t) \in DOMAIN conversation_history)
                     => /\ ActChat(t) \in DOMAIN conversation_history'
                        /\ conversation_history'[ActChat(t)] =
                              conversation_history[ActChat(t)]
       /\ \A c \in DOMAIN conversation_meta' :
            (c \notin DOMAIN conversation_meta \/ conversation_meta'[c] # conversation_meta[c])
            => /\ c \notin DOMAIN conversation_meta
               /\ c \notin DOMAIN conversation_history
               /\ conversation_meta'[c].started_at = clock'
      ]_vars

C10_Witness ==
    \E t \in Tasks :
       /\ running = t /\ task[t].kind = "start" /\ task[t].pc = "answer"
       /\ task[t].existed /\ Len(task[t].before) = 2
       /\ task[t].before_meta # << >>
       /\ conversation_meta[task[t].chat_id] = task[t].before_meta[1]
       /\ task[t].reply.arg # conversation_meta[task[t].chat_id].username
       /\ conversation_meta[task[t].chat_id].started_at < clock
       /\ conversation_history[task[t].chat_id] = task[t].before

\* the window of a text request: from after the provisional append up to
\* the commit or the rollback
InWindow(t) ==
    /\ task[t].kind = "text"
    /\ \/ task[t].pc \in {"llm_client", "llm_build", "llm_loop", "llm_sleep", "commit"}
       \/ task[t].pc = "except" /\ task[t].raised \in LlmErrors

\* C11 -- Per-conversation mutual exclusion: while a text request is between
\* its provisional append and its commit or rollback it holds the event loop,
\* and no other handler execution on the same conversation id takes a step.
C11_MutualExclusion ==
    [][\A t \in Tasks :
         InWindow(t) =>
            /\ running = t
            /\ \A u \in Tasks \ {t} :
                  ~(Acts(u) /\ ActChat(u) = task[t].chat_id)
      ]_vars

C11_Witness ==
    \E t \in Tasks, u \in Tasks :
       /\ u # t
       /\ InWindow(t) /\ task[t].pc = "llm_sleep"
       /\ task[u].pc = "awaiting" /\ task[u].kind \in {"text", "clear"}
       /\ task[u].chat_id = task[t].chat_id

\* t is inside the remote completion call or the pause between two attempts
WaitingOnLlm(t) ==
    /\ task[t].kind = "text"
    /\ \/ task[t].pc = "llm_sleep"
       \/ task[t].pc = "llm_loop" /\ InLoop(task[t].attempt, env.LLM_RETRY_ATTEMPTS)

\* a handler for conversation c can start
CanStart(c) ==
    ENABLED (\E u \in Tasks, usr \in Users, x \in Texts :
                \/ CmdStart(u, c, usr)
                \/ CmdClear(u, c)
                \/ HandleNonText(u, c)
                \/ HandleText(u, c, usr, x))

\* C12 -- Independent conversations run concurrently: while a text request
\* of conversation A waits on the remote call or on the pause between retries,
\* a pending update of another conversation B can be taken up (a coroutine
\* slot being free), and a handler of B suspended in its send can complete.
C12_IndependentConcurrency ==
    \A t \in Tasks :
       WaitingOnLlm(t) =>
          /\ ((\E u \in Tasks : Free(u)) /\ clock < MaxEvents)
                => \A c \in ChatIds \ {task[t].chat_id} : CanStart(c)
          /\ \A u \in Tasks \ {t} :
                (task[u].pc = "awaiting" /\ task[u].chat_id # task[t].chat_id)
                   => ENABLED AnswerOk(u)

\* C13 -- Missing credential is a startup failure: no text request is taken
\* up, staged and then failed because the credential of the completion
\* service is missing.
C13_CredentialAtStartup ==
    \A t \in Tasks :
       task[t].kind = "text" => task[t].raised # "ValueError"

\* h is empty or ends with an Assistant turn
NoTrailingUser(h) == Len(h) = 0 \/ h[Len(h)].role = "assistant"

C15_ExactlyOneReply ==
    [][\A t \in Tasks :
         /\ (Acts(t) /\ InWindow(t)) => task'[t].sent = 0
         /\ (Acts(t) /\ task[t].kind = "text" /\ task'[t].pc = "done")
               => /\ task'[t].sent = 1
                  /\ task'[t].crashed = None
                  /\ task[t].reply.tpl = IF task[t].got_reply THEN "llm" ELSE "apology"
      ]_vars

\* C15 (amended) -- nothing is sent between retry attempts; the text passed
\* to message.answer is the assistant text after get_llm_response returned and
\* the fixed apology, the same for every cause, after any failure; a text
\* handler delivers at most one reply, exactly one when its last send returns,
\* none when that send fails or is cancelled or the handler ends in KeyError;
\* when no send failed the delivered reply is the assistant text if an attempt
\* succeeded and the apology otherwise.
C15_ReplyOutcome ==
    [][\A t \in Tasks :
         /\ (Acts(t) /\ InWindow(t)) => task'[t].sent = 0
         /\ (Acts(t) /\ task'[t].kind = "text" /\ task'[t].pc = "answer")
               => /\ task'[t].in_try => task'[t].got_reply
                  /\ task'[t].reply = IF task'[t].in_try
                                      THEN LlmReply(task'[t].response)
                                      ELSE ErrorMessage
         /\ (Acts(t) /\ task[t].kind = "text" /\ task'[t].pc = "done")
               => /\ task'[t].sent <= 1
                  /\ task'[t].sent = 1 <=> task'[t].crashed = None
                  /\ (task'[t].crashed = None /\ (task[t].in_try \/ ~task[t].got_reply))
                        => task[t].reply.tpl =
                              IF task[t].got_reply THEN "llm" ELSE "apology"
                  /\ (task'[t].crashed = None /\ ~task[t].in_try)
                        => task[t].reply = ErrorMessage
      ]_vars

C15_Witness ==
    \E t \in Tasks :
       /\ task[t].kind = "text" /\ task[t].pc = "awaiting"
       /\ ~task[t].in_try /\ task[t].got_reply
       /\ task[t].reply = ErrorMessage
       /\ task[t].sent = 0

\* d and e agree on key c
SameAt(d, e, c) == (c \in DOMAIN d <=> c \in DOMAIN e) /\ (c \in DOMAIN d => e[c] = d[c])

\* C16 -- Conversation independence: a step of a handler for conversation A
\* leaves the history and the metadata of every other id unchanged, and the
\* request built for a text message of A is made of turns of A's own stored
\* history.
C16_Independence ==
    [][\A t \in Tasks :
         Acts(t) =>
            /\ \A c \in ChatIds \ {ActChat(t)} :
                  /\ SameAt(conversation_history, conversation_history', c)
                  /\ SameAt(conversation_meta, conversation_meta', c)
            /\ (task[t].pc = "llm_build" /\ task'[t].pc = "llm_loop")
                  => LET own == conversation_history[task[t].chat_id] IN
                     \E k \in 1..Len(own) :
                        RequestHistory(task'[t].messages) = SubSeq(own, k, Len(own) - 1)
      ]_vars

C16_Witness ==
    \E t \in Tasks, c \in DOMAIN conversation_history :
       /\ InText(t) /\ task[t].pc = "llm_loop"
       /\ c # task[t].chat_id
       /\ Len(conversation_history[c]) = 2
       /\ c \in DOMAIN conversation_meta
       /\ Len(task[t].messages) = 2

\* a is a prefix of b
IsPrefix(a, b) == Len(a) <= Len(b) /\ SubSeq(b, 1, Len(a)) = a

\* C17 -- Stored history is append-only between clears: a history disappears
\* only in the step that processes /clear for its id; otherwise a step leaves
\* it unchanged, appends one turn to it, or removes the provisional User turn
\* of the acting text handler, giving back the history that handler found; the
\* commit stores two turns more than the handler found whatever history_limit
\* is.
C17_AppendOnly ==
    [][/\ \A c \in DOMAIN conversation_history :
            IF c \notin DOMAIN conversation_history'
            THEN \E t \in Tasks : /\ Acts(t) /\ Free(t)
                                   /\ task'[t].kind = "clear" /\ task'[t].chat_id = c
            ELSE LET a == conversation_history[c]
                     b == conversation_history'[c]
                 IN  \/ b = a
                     \/ Len(b) = Len(a) + 1 /\ IsPrefix(a, b)
                     \/ \E t \in Tasks :
                           /\ InText(t) /\ Acts(t) /\ task[t].chat_id = c
                           /\ task[t].pc = "except"
                           /\ b = task[t].before
                           /\ a = Append(b, [role |-> "user", content |-> task[t].text])
       /\ \A t \in Tasks :
            (InText(t) /\ task[t].pc # "append"
               /\ task[t].chat_id \in DOMAIN conversation_history)
            => IsPrefix(task[t].before, conversation_history[task[t].chat_id])
       /\ \A t \in Tasks :
            (InText(t) /\ task[t].pc = "commit" /\ Acts(t))
            => /\ IsPrefix(task[t].before, conversation_history'[task[t].chat_id])
               /\ Len(conversation_history'[task[t].chat_id]) = Len(task[t].before) + 2
      ]_vars

C17_Witness ==
    \E t \in Tasks :
       /\ InText(t) /\ task[t].pc = "answer" /\ task[t].in_try
       /\ Len(conversation_history[task[t].chat_id]) = 4
       /\ env.CONVERSATION_HISTORY_LIMIT = 1
       /\ IsPrefix(task[t].before, conversation_history[task[t].chat_id])

\* C18 -- Store contract violations are unreachable: no handler reads or
\* mutates the history of an id that has no record (a KeyError on
\* conversation_history[chat_id]).
C18_NoContractViolation ==
    \A t \in Tasks : task[t].crashed # "KeyError"

\* C19 -- A failed first message keeps the record: when the first text
\* message of an unseen id fails in get_llm_response, the rollback leaves a
\* record with metadata of this event and an empty history.
C19_FailedFirstKeepsRecord ==
    \A t \in Tasks :
       (InText(t) /\ ~task[t].existed /\ task[t].pc = "answer" /\ ~task[t].in_try
          /\ task[t].raised \in LlmErrors)
       => LET c == task[t].chat_id IN
          /\ c \in DOMAIN conversation_history
          /\ conversation_history[c] = << >>
          /\ c \in DOMAIN conversation_meta
          /\ conversation_meta[c].started_at = clock
          /\ conversation_meta[c].username \in {"ann", "unknown"}

C19_Witness ==
    \E t \in Tasks :
       /\ InText(t) /\ ~task[t].existed /\ task[t].pc = "answer" /\ ~task[t].in_try
       /\ task[t].raised \in ApiErrors
       /\ conversation_history[task[t].chat_id] = << >>
       /\ task[t].chat_id \in DOMAIN conversation_meta
       /\ task[t].before_meta = << >>

\* the remote calls a request has made so far
Calls(trace) == Cardinality({i \in 1..Len(trace) : trace[i] = "call"})

\* C20 -- Bounded retry terminates: a text request never makes more than
\* retry_attempts remote calls, and (every remote call and pause returning)
\* a request that has staged its User turn reaches the commit or the rollback
\* and its handler then calls message.answer.
C20_RetryTerminates ==
    /\ [](\A t \in Tasks :
             /\ Calls(task[t].trace) <= IF env.LLM_RETRY_ATTEMPTS < 0
                                        THEN 0 ELSE env.LLM_RETRY_ATTEMPTS
             /\ Len(task[t].trace) <= 2 * MaxRetryAttempts)
    /\ \A t \in Tasks :
          (InText(t) /\ task[t].pc = "llm_client")
             ~> (task[t].kind = "text" /\ task[t].pc = "answer" /\ running = t)
    /\ \A t \in Tasks :
          (InText(t) /\ task[t].pc = "llm_client")
             ~> (task[t].kind = "text" /\ task[t].pc = "awaiting")

C20_Witness ==
    \E t \in Tasks :
       /\ InText(t) /\ task[t].pc = "answer" /\ ~task[t].in_try
       /\ Calls(task[t].trace) = env.LLM_RETRY_ATTEMPTS
       /\ env.LLM_RETRY_ATTEMPTS = MaxRetryAttempts

\* h is User, Assistant, User, Assistant, ... and ends with an Assistant turn
Alternates(h) ==
    /\ Len(h) % 2 = 0
    /\ \A i \in 1..Len(h) : h[i].role = IF i % 2 = 1 THEN "user" ELSE "assistant"

\* C21 -- Alternation invariant: in every reachable state in which no text
\* handler is between its provisional append and its commit or rollback, every
\* stored history is empty or of even length, alternating User, Assistant from
\* a User turn to an Assistant turn; while a handler is in that window its
\* conversation holds such a history followed by the one provisional User turn.
C21_Alternation ==
    /\ (\A t \in Tasks : ~InWindow(t))
          => \A c \in DOMAIN conversation_history :
                /\ Alternates(conversation_history[c])
                /\ NoTrailingUser(conversation_history[c])
    /\ \A t \in Tasks :
          InWindow(t) =>
             /\ Alternates(PyDropLast(conversation_history[task[t].chat_id]))
             /\ conversation_history[task[t].chat_id] =
                   Append(PyDropLast(conversation_history[task[t].chat_id]),
                          [role |-> "user", content |-> task[t].text])
             /\ \A c \in (DOMAIN conversation_history) \ {task[t].chat_id} :
                   Alternates(conversation_history[c])

C21_Witness ==
    \E t \in Tasks :
       /\ running = NoTask
       /\ task[t].kind = "text" /\ task[t].pc = "awaiting"
       /\ ~task[t].in_try /\ ~task[t].got_reply
       /\ task[t].chat_id \in DOMAIN conversation_history
       /\ Len(conversation_history[task[t].chat_id]) = 2
       /\ Alternates(conversation_history[task[t].chat_id])
       /\ \A u \in Tasks : ~InWindow(u)

\* C22 -- History and metadata stay paired: in every reachable state the ids
\* that have a history are the ids that have metadata, whatever the order in
\* which /start, /clear and text handlers run, and the second delete of /clear
\* never finds the metadata missing.
C22_Paired ==
    /\ DOMAIN conversation_history = DOMAIN conversation_meta
    /\ \A t \in Tasks : ~(task[t].kind = "clear" /\ task[t].crashed = "KeyError")

C22_Witness ==
    \E t \in Tasks, u \in Tasks :
       /\ task[t].kind = "text" /\ task[t].pc = "awaiting"
       /\ running = u /\ task[u].kind = "clear" /\ task[u].pc = "answer"
       /\ task[u].chat_id = task[t].chat_id
       /\ task[u].existed /\ task[u].before_meta # << >>
       /\ task[u].chat_id \notin DOMAIN conversation_history
       /\ task[u].chat_id \notin DOMAIN conversation_meta

\* C23 -- Rollback removes only the request's own provisional turn: a step of
\* the error branch of handle_text changes no history but its own
\* conversation's; when it removes a turn, the handler failed in
\* get_llm_response, the history was what the handler found at receipt
\* followed by exactly its own User turn, and the pop gives back what it
\* found; when the failure came after the commit (the send failed), under any
\* interleaving of other handlers during the send, it removes nothing.
C23_RollbackOwnTurn ==
    [][\A t \in Tasks :
         (InText(t) /\ task[t].pc = "except" /\ Acts(t)) =>
            LET c == task[t].chat_id IN
            /\ conversation_meta' = conversation_meta
            /\ DOMAIN conversation_history' = DOMAIN conversation_history
            /\ \A d \in (DOMAIN conversation_history) \ {c} :
                  conversation_history'[d] = conversation_history[d]
            /\ (c \in DOMAIN conversation_history
                  /\ conversation_history'[c] # conversation_history[c])
               => /\ ~task[t].got_reply
                  /\ task[t].raised \in LlmErrors
                  /\ conversation_history[c] =
                        Append(task[t].before, [role |-> "user", content |-> task[t].text])
                  /\ conversation_history'[c] = task[t].before
            /\ (task[t].got_reply \/ task[t].raised = "TelegramError")
               => conversation_history' = conversation_history
      ]_vars

C23_Witness ==
    \E t \in Tasks, u \in Tasks :
       /\ u # t
       /\ InText(t) /\ task[t].pc = "answer"
       /\ ~task[t].in_try /\ task[t].got_reply
       /\ task[u].kind = "text" /\ task[u].pc = "awaiting"
       /\ ~task[u].in_try /\ ~task[u].got_reply
       /\ task[u].chat_id = task[t].chat_id
       /\ task[t].chat_id \in DOMAIN conversation_history
       /\ Len(conversation_history[task[t].chat_id]) = 2

\* C24 -- Zero retry attempts: with retry_attempts configured as 0 or as a
\* negative number a text request makes no remote call and no pause and never
\* gets a reply; get_llm_response ends in an exception (TypeError from
\* `raise None`, or ValueError when the credential is missing), and handle_text
\* then leaves the history as it was at receipt and passes the fixed apology
\* to message.answer.
C24_ZeroAttempts ==
    \A t \in Tasks :
       (task[t].kind = "text" /\ env.LLM_RETRY_ATTEMPTS <= 0) =>
          /\ task[t].trace = << >>
          /\ task[t].errs = << >>
          /\ ~task[t].got_reply
          /\ task[t].response = None
          /\ task[t].pc \notin {"llm_sleep", "commit"}
          /\ ~task[t].in_try
          /\ task[t].pc = "except" =>
                task[t].raised = IF client = None THEN "ValueError" ELSE "TypeError"
          /\ task[t].pc \in {"answer", "awaiting"} => task[t].reply = ErrorMessage
          /\ (running = t /\ task[t].pc = "answer") =>
                /\ task[t].raised \in {"ValueError", "TypeError"}
                /\ conversation_history[task[t].chat_id] = task[t].before
                /\ task[t].before = << >>

C24_Witness ==
    \E t \in Tasks :
       /\ InText(t) /\ task[t].pc = "answer"
       /\ env.LLM_RETRY_ATTEMPTS = 0
       /\ task[t].raised = "TypeError"
       /\ task[t].trace = << >>
       /\ task[t].reply = ErrorMessage
       /\ conversation_history[task[t].chat_id] = task[t].before
       /\ clock = 2
====
